---- MODULE Spec2Model ----
(***************************************************************************)
(* labeltorss (src/main.py): a mailbox folder is mirrored incrementally    *)
(* into metadata.json (watermark last_uid + entry history) and the history *)
(* is republished as rss.xml.  One action per invocation of the script:    *)
(* fetch_emails() (scan mode) and add_manual_link(url) (inject mode), each *)
(* run to completion, with the answers of the IMAP server, of the web      *)
(* server and of the file system drawn from small sets.                    *)
(*                                                                         *)
(* Text is a sequence of one-character tokens; "EACUTE", "NUL" and "VT"    *)
(* stand for a non-ASCII letter and two control characters.                *)
(***************************************************************************)
EXTENDS Integers, Sequences, FiniteSets, TLC

\* ------------------------------------------------------------- bounds
MaxUid == 2          \* messages ever delivered to the folder
MaxDate == 2         \* local times of the entries handed to generate_feed alone
MaxEntries == 3      \* length of the entry history
MaxFeedLen == 3      \* length of an entry list handed to generate_feed alone

\* ------------------------------------------------------ configuration
BASE_URL == "BASE_URL"

\* ------------------------------------------------------------- text
AlnumChars == {"a", "b", "e", "m", "x", "T", "u"}
ControlChars == {"NUL", "VT"}
SpaceChars == {" ", "VT"}

\* the maximum never taken
MaxKeepsFirst(a, b) == a
Max(a, b) == IF a > b THEN a ELSE b

\* unidecode(subject): every character to its closest ASCII spelling
UnidecodeChar(ch) == IF ch = "EACUTE" THEN "e" ELSE ch
unidecode(s) == [i \in 1..Len(s) |-> UnidecodeChar(s[i])]

\* re.sub('[^0-9a-zA-Z]+', '_', s): every maximal run of characters outside
\* [0-9a-zA-Z] becomes one "_"
RECURSIVE ReSubFrom(_, _, _)
ReSubFrom(s, i, out) ==
    IF i > Len(s) THEN out
    ELSE IF s[i] \in AlnumChars THEN ReSubFrom(s, i + 1, Append(out, s[i]))
    ELSE IF i > 1 /\ s[i - 1] \notin AlnumChars THEN ReSubFrom(s, i + 1, out)
    ELSE ReSubFrom(s, i + 1, Append(out, "_"))
NormalizeId(subject) == ReSubFrom(unidecode(subject), 1, <<>>)

RECURSIVE LStrip(_)
LStrip(s) == IF s # <<>> /\ Head(s) \in SpaceChars THEN LStrip(Tail(s)) ELSE s
RECURSIVE RStrip(_)
RStrip(s) ==
    IF s # <<>> /\ s[Len(s)] \in SpaceChars THEN RStrip(SubSeq(s, 1, Len(s) - 1)) ELSE s
strip(s) == RStrip(LStrip(s))

remove_control_characters(s) == SelectSeq(s, LAMBDA ch : ch \notin ControlChars)

\* ------------------------------------------------------------- dates
\* A date string (Date header, isoformat() output) is a local time with a UTC
\* offset; the datetime it parses to is an instant with that offset.
TZs == {0, 1}
DateStrings == {d \in [local : 0..MaxDate, off : TZs] : d.local - d.off >= 0 /\ d.local >= 1}
parse(s) == [instant |-> s.local - s.off, off |-> s.off]
isoformat(d) == [local |-> d.instant + d.off, off |-> d.off]

\* ------------------------------------------------------------ inputs
Subjects == {<<"EACUTE", "!", "!">>, <<"b">>}
BodyOf(uid) == <<" ">> \o [i \in 1..uid |-> "x"] \o <<"NUL", "m", " ">>
\* a message that is not multipart: its payload is its body
SinglePart(s, h, payload) ==
    [subject |-> s, date |-> h, is_multipart |-> FALSE, payload |-> payload, parts |-> <<>>]
\* a multipart message: the container has no payload of its own
Multipart(s, h, parts) ==
    [subject |-> s, date |-> h, is_multipart |-> TRUE, payload |-> <<>>, parts |-> parts]
\* Date headers as delivered: one that dateutil cannot parse, one that it can
Headers == {[valid |-> FALSE, local |-> 0, off |-> 0],
            [valid |-> TRUE, local |-> 2, off |-> 1]}
\* datetime.now(utc) as read by add_manual_link: later than every Date header
Clock == {2}
URLS == {<<"u">>}
Responses ==
    { [raises |-> TRUE, status_code |-> 0, has_title |-> FALSE, title |-> <<>>],
      [raises |-> FALSE, status_code |-> 404, has_title |-> TRUE, title |-> <<" ", "T">>],
      [raises |-> FALSE, status_code |-> 200, has_title |-> FALSE, title |-> <<>>],
      [raises |-> FALSE, status_code |-> 200, has_title |-> TRUE, title |-> <<" ", "T">>] }
\* a page whose <title> holds white space only
BlankTitle == [raises |-> FALSE, status_code |-> 200, has_title |-> TRUE, title |-> <<" ">>]
\* no request made
NoResponse == [raises |-> FALSE, status_code |-> 0, has_title |-> FALSE, title |-> <<>>]

VARIABLES
    mailbox,          \* the folder on the server: mailbox[uid] is the message with that UID
    state_file,       \* metadata.json
    body_files,       \* OUT_PATH/<id>.html: file name -> content
    rss,              \* OUT_PATH/rss.xml: absent, or the feed's items in order
    mode,             \* the last invocation: "none", "scan" or "add"
    outcome,          \* how it ended
    exit_code,        \* its exit status
    last_uid,         \* locals of the last invocation
    search_crit,
    uids,
    no_uids,          \* the UIDs whose fetch the server answered with rv # 'OK'
    new_entries,
    current_max_uid,
    entries_arg,      \* the argument of the last generate_feed call
    response          \* what requests.get answered in the last invocation

vars == <<mailbox, state_file, body_files, rss, mode, outcome, exit_code, last_uid,
          search_crit, uids, no_uids, new_entries, current_max_uid, entries_arg,
          response>>

\* ---------------------------------------------------------- state store
NoFile == [kind |-> "absent", last_uid |-> 0, entries |-> <<>>]
Truncated == [kind |-> "truncated", last_uid |-> 0, entries |-> <<>>]

\* a file that json.load parses to something that is no object: [], 5, null
NotObject == [kind |-> "not_object", last_uid |-> 0, entries |-> <<>>]

\* load_state(): (0, []) when the file is missing or json.load raises
\* JSONDecodeError; data.get on a parsed value that is no object raises
\* AttributeError, which nothing catches (raised)
load_state(f) ==
    IF f.kind = "ok" THEN [last_uid |-> f.last_uid, entries |-> f.entries, raised |-> FALSE]
    ELSE IF f.kind = "not_object" THEN [last_uid |-> 0, entries |-> <<>>, raised |-> TRUE]
    ELSE [last_uid |-> 0, entries |-> <<>>, raised |-> FALSE]

\* the watermark written without the entries
save_state_watermark_only(lu, entries) == [kind |-> "ok", last_uid |-> lu, entries |-> <<>>]

\* save_state(last_uid, entries) run to its end
save_state(lu, entries) == [kind |-> "ok", last_uid |-> lu, entries |-> entries]

\* open(STATE_FILE, 'w') empties the file before json.dump writes into it: a
\* process stopped in between (killed, disk full) leaves an unparseable file
save_state_interrupted(lu, entries) == Truncated

\* ---------------------------------------------------------- generate_feed
\* sorted(entries, key=lambda x: parse(x['date']), reverse=True): stable, so
\* an entry goes after every entry already placed whose key is >= its own
SortKey(entry) == parse(entry.date).instant
\* an unstable sort: an entry goes before the entries of equal key
RECURSIVE InsertPosUnstable(_, _, _)
InsertPosUnstable(out, e, i) ==
    IF i > Len(out) THEN i
    ELSE IF SortKey(out[i]) <= SortKey(e) THEN i
    ELSE InsertPosUnstable(out, e, i + 1)
RECURSIVE InsertPos(_, _, _)
InsertPos(out, e, i) ==
    IF i > Len(out) THEN i
    ELSE IF SortKey(out[i]) < SortKey(e) THEN i
    ELSE InsertPos(out, e, i + 1)
InsertSorted(out, e) ==
    LET p == InsertPos(out, e, 1)
    IN SubSeq(out, 1, p - 1) \o <<e>> \o SubSeq(out, p, Len(out))
RECURSIVE SortedFrom(_, _, _)
SortedFrom(entries, i, out) ==
    IF i > Len(entries) THEN out
    ELSE SortedFrom(entries, i + 1, InsertSorted(out, entries[i]))
sorted_entries(entries) == SortedFrom(entries, 1, <<>>)

\* a feed item identified by its title instead of its link
FeedItemIdTitle(entry) ==
    [id |-> entry.title, title |-> entry.title, updated |-> parse(entry.date),
     link |-> entry.link, description |-> entry.description,
     summary |-> entry.description]
FeedItem(entry) ==
    [id |-> entry.link, title |-> entry.title, updated |-> parse(entry.date),
     link |-> entry.link, description |-> entry.description,
     summary |-> entry.description]

\* the items added to the document already on disk
atom_file_append(old, items) == [present |-> TRUE, items |-> old.items \o items]
\* fg.atom_file(path): the document is written anew from the generator
atom_file(old, items) == [present |-> TRUE, items |-> items]

generate_feed(old, entries) ==
    LET se == sorted_entries(entries)
    IN atom_file(old, [i \in 1..Len(se) |-> FeedItem(se[i])])

NoFeed == [present |-> FALSE, items |-> <<>>]

\* ------------------------------------------------------------ inject mode
fetch_web_title(url, resp) ==
    IF ~resp.raises /\ resp.status_code = 200 /\ resp.has_title /\ resp.title # <<>>
    THEN strip(resp.title)
    ELSE url

\* the link made the way a mail entry's is, under BASE_URL
ManualEntryUnderBase(url, title, now) ==
    [date |-> isoformat([instant |-> now, off |-> 0]), title |-> title,
     link |-> <<BASE_URL, "/">> \o url,
     description |-> <<"External Link: ">> \o title]
ManualEntry(url, title, now) ==
    [date |-> isoformat([instant |-> now, off |-> 0]), title |-> title, link |-> url,
     description |-> <<"External Link: ">> \o title]

\* ------------------------------------------------------------- scan mode
ALL == 0
SearchCrit(lu) == IF lu > 0 THEN lu + 1 ELSE ALL

\* the server's answer to UID SEARCH: every UID for ALL; for 'n:*' the UIDs
\* from n up, and always the highest UID of the folder ('*')
RECURSIVE Ascending(_)
Ascending(S) ==
    IF S = {} THEN <<>>
    ELSE LET m == CHOOSE x \in S : \A y \in S : x <= y
         IN <<m>> \o Ascending(S \ {m})
SearchAnswer(crit) ==
    LET all == DOMAIN mailbox
    IN IF crit = ALL THEN Ascending(all)
       ELSE Ascending({u \in all : u >= crit \/ u = Len(mailbox)})

FileName(id_) == id_ \o <<".html">>
Link(file_name) == <<BASE_URL, "/">> \o file_name
WriteFile(files, name, content) ==
    [n \in DOMAIN files \cup {name} |-> IF n = name THEN content ELSE files[n]]

\* current_max_uid started from 0 instead of the loaded watermark
StartMaxUidZero(lu) == 0
StartMaxUid(lu) == lu
\* the watermark test left out
SkipNever(uid, lu) == FALSE
\* the watermark test off by one
SkipOffByOne(uid, lu) == uid <= lu + 1
Skip(uid, lu) == uid <= lu

\* msg.walk(): the message itself, then its parts in document order
walk(msg) ==
    <<[ctype |-> IF msg.is_multipart THEN "multipart/alternative" ELSE "text/plain",
       payload |-> msg.payload]>> \o msg.parts

\* current_ctype is set to None before the walk and never assigned again
current_ctype == "None"

\* the part whose payload the walk keeps: body is overwritten at every part
\* for which current_ctype is None or the part is text/html
RECURSIVE WalkBody(_, _, _)
WalkBody(ps, i, body) ==
    IF i > Len(ps) THEN body
    ELSE IF current_ctype = "None" \/ ps[i].ctype = "text/html"
         THEN WalkBody(ps, i + 1, ps[i].payload)
         ELSE WalkBody(ps, i + 1, body)
SelectBody(msg) ==
    IF msg.is_multipart THEN WalkBody(walk(msg), 1, <<>>) ELSE msg.payload

\* one pass of the for loop of fetch_emails; acc.raised: an exception left it
LoopBody(acc, uid, lu, failed) ==
    IF acc.raised \/ Skip(uid, lu) THEN acc
    ELSE LET a1 == [acc EXCEPT !.current_max_uid = Max(@, uid)]
         IN IF uid \in failed THEN a1
            ELSE LET msg == mailbox[uid]
                     id_ == NormalizeId(msg.subject)
                     file_name == FileName(id_)
                     body == SelectBody(msg)
                     a2 == [a1 EXCEPT !.body_files = WriteFile(@, file_name, body)]
                 IN IF ~msg.date.valid THEN [a2 EXCEPT !.raised = TRUE]
                    ELSE [a2 EXCEPT !.new_entries = Append(@,
                            [date |-> isoformat(parse(msg.date)),
                             title |-> id_,
                             link |-> Link(file_name),
                             description |-> remove_control_characters(strip(body))])]

RECURSIVE Loop(_, _, _, _, _)
Loop(acc, us, i, lu, failed) ==
    IF i > Len(us) THEN acc
    ELSE Loop(LoopBody(acc, us[i], lu, failed), us, i + 1, lu, failed)

\* the history saved in the order of the feed
AllEntriesSorted(existing_entries, new) == sorted_entries(existing_entries \o new)
\* the history replaced by the new entries instead of extended by them
AllEntriesNewOnly(existing_entries, new) == new
AllEntries(existing_entries, new) == existing_entries \o new

\* ------------------------------------------------------------ behaviour
Init ==
    /\ mailbox = <<>>
    /\ state_file = NoFile
    /\ body_files = <<>>
    /\ rss = NoFeed
    /\ mode = "none"
    /\ outcome = "none"
    /\ exit_code = 0
    /\ last_uid = 0
    /\ search_crit = ALL
    /\ uids = <<>>
    /\ no_uids = {}
    /\ new_entries = <<>>
    /\ current_max_uid = 0
    /\ entries_arg = <<>>
    /\ response = NoResponse

RunLocals == <<mode, outcome, exit_code, last_uid, search_crit, uids, no_uids,
               new_entries, current_max_uid, entries_arg, response>>

\* a message arrives in the folder and gets the next UID
Deliver ==
    /\ Len(mailbox) < MaxUid
    /\ \E s \in Subjects, h \in Headers :
         mailbox' = Append(mailbox, SinglePart(s, h, BodyOf(Len(mailbox) + 1)))
    /\ UNCHANGED <<state_file, body_files, rss, RunLocals>>

\* python main.py, M.login raises imaplib.IMAP4.error: sys.exit(1)
FetchEmailsLoginFailed ==
    /\ mode' = "scan" /\ outcome' = "login_failed" /\ exit_code' = 1
    /\ last_uid' = 0 /\ search_crit' = ALL /\ uids' = <<>> /\ no_uids' = {}
    /\ new_entries' = <<>> /\ current_max_uid' = 0 /\ response' = NoResponse
    /\ UNCHANGED <<mailbox, state_file, body_files, rss, entries_arg>>

\* python main.py, M.select answers rv # 'OK': logout and return
FetchEmailsSelectFailed ==
    /\ mode' = "scan" /\ outcome' = "select_failed" /\ exit_code' = 0
    /\ last_uid' = 0 /\ search_crit' = ALL /\ uids' = <<>> /\ no_uids' = {}
    /\ new_entries' = <<>> /\ current_max_uid' = 0 /\ response' = NoResponse
    /\ UNCHANGED <<mailbox, state_file, body_files, rss, entries_arg>>

\* fetch_emails() from load_state() to the end of the for loop, the server
\* answering the fetches of `failed` with rv # 'OK'
Scan(failed) ==
    LET st == load_state(state_file)
        crit == SearchCrit(st.last_uid)
        us == SearchAnswer(crit)
        acc0 == [new_entries |-> <<>>, current_max_uid |-> StartMaxUid(st.last_uid),
                 body_files |-> body_files, raised |-> st.raised]
        acc == Loop(acc0, us, 1, st.last_uid, failed)
    IN [last_uid |-> st.last_uid, search_crit |-> crit, uids |-> us,
        new_entries |-> acc.new_entries, current_max_uid |-> acc.current_max_uid,
        body_files |-> acc.body_files, raised |-> acc.raised,
        all_entries |-> AllEntries(st.entries, acc.new_entries)]

\* the UIDs the loop asks the server to fetch
Fetched == {u \in DOMAIN mailbox : ~Skip(u, load_state(state_file).last_uid)}

ScanLocals(r, failed) ==
    /\ mode' = "scan"
    /\ last_uid' = r.last_uid
    /\ search_crit' = r.search_crit
    /\ uids' = r.uids
    /\ no_uids' = failed
    /\ new_entries' = r.new_entries
    /\ current_max_uid' = r.current_max_uid
    /\ body_files' = r.body_files
    /\ response' = NoResponse
    /\ UNCHANGED mailbox

\* python main.py with the folder open: load, search, loop, save, regenerate;
\* an exception in the loop (parse(msg['Date'])) ends the process before the save
FetchEmails ==
    \E failed \in SUBSET Fetched :
      LET r == Scan(failed)
      IN /\ Len(r.all_entries) <= MaxEntries
         /\ ScanLocals(r, failed)
         /\ IF r.raised
            THEN /\ outcome' = "raised" /\ exit_code' = 1
                 /\ UNCHANGED <<state_file, rss, entries_arg>>
            ELSE /\ outcome' = "done" /\ exit_code' = 0
                 /\ state_file' = save_state(r.current_max_uid, r.all_entries)
                 /\ entries_arg' = r.all_entries
                 /\ rss' = generate_feed(rss, r.all_entries)

\* the same run, the process stopped inside save_state
FetchEmailsInterrupted ==
    \E failed \in SUBSET Fetched :
      LET r == Scan(failed)
      IN /\ Len(r.all_entries) <= MaxEntries
         /\ ~r.raised
         /\ ScanLocals(r, failed)
         /\ outcome' = "save_interrupted" /\ exit_code' = 1
         /\ state_file' = save_state_interrupted(r.current_max_uid, r.all_entries)
         /\ UNCHANGED <<rss, entries_arg>>

AddLocals(st, entry) ==
    /\ mode' = "add"
    /\ last_uid' = st.last_uid
    /\ search_crit' = ALL /\ uids' = <<>> /\ no_uids' = {}
    /\ new_entries' = <<entry>>
    /\ current_max_uid' = st.last_uid
    /\ UNCHANGED <<mailbox, body_files>>

\* add_manual_link(url), the web server answering resp and the clock reading
\* now; load_state comes first and may raise
AddRun(url, resp, now) ==
    LET st == load_state(state_file)
        new_entry == ManualEntry(url, fetch_web_title(url, resp), now)
        entries == Append(st.entries, new_entry)
    IN /\ Len(entries) <= MaxEntries
       /\ IF st.raised
          THEN /\ mode' = "add" /\ outcome' = "raised" /\ exit_code' = 1
               /\ last_uid' = 0 /\ search_crit' = ALL /\ uids' = <<>> /\ no_uids' = {}
               /\ new_entries' = <<>> /\ current_max_uid' = 0 /\ response' = NoResponse
               /\ UNCHANGED <<mailbox, body_files, state_file, rss, entries_arg>>
          ELSE /\ AddLocals(st, new_entry)
               /\ response' = resp
               /\ outcome' = "done" /\ exit_code' = 0
               /\ state_file' = save_state(st.last_uid, entries)
               /\ entries_arg' = entries
               /\ rss' = generate_feed(rss, entries)

\* python main.py --add URL
AddManualLink ==
    \E url \in URLS, resp \in Responses, now \in Clock : AddRun(url, resp, now)

\* python main.py --add URL, the page's title being white space
AddManualLinkBlankTitle ==
    \E url \in URLS, now \in Clock : AddRun(url, BlankTitle, now)

\* the same run, the process stopped inside save_state
AddManualLinkInterrupted ==
    \E url \in URLS, resp \in Responses, now \in Clock :
      LET st == load_state(state_file)
          new_entry == ManualEntry(url, fetch_web_title(url, resp), now)
          entries == Append(st.entries, new_entry)
      IN /\ Len(entries) <= MaxEntries
         /\ ~st.raised
         /\ AddLocals(st, new_entry)
         /\ response' = resp
         /\ outcome' = "save_interrupted" /\ exit_code' = 1
         /\ state_file' = save_state_interrupted(st.last_uid, entries)
         /\ UNCHANGED <<rss, entries_arg>>

\* every invocation runs to its end
Next ==
    \/ Deliver
    \/ FetchEmailsLoginFailed
    \/ FetchEmailsSelectFailed
    \/ FetchEmails
    \/ AddManualLink

Spec == Init /\ [][Next]_vars

\* invocations that may also be stopped while they write metadata.json
NextCrash ==
    \/ Deliver
    \/ FetchEmailsLoginFailed
    \/ FetchEmailsSelectFailed
    \/ FetchEmails
    \/ AddManualLink
    \/ FetchEmailsInterrupted
    \/ AddManualLinkInterrupted

SpecCrash == Init /\ [][NextCrash]_vars

\* invocations that run to their end, pages with a blank title among the
\* pages added
NextAdd ==
    \/ Deliver
    \/ FetchEmailsLoginFailed
    \/ FetchEmailsSelectFailed
    \/ FetchEmails
    \/ AddManualLink
    \/ AddManualLinkBlankTitle

SpecAdd == Init /\ [][NextAdd]_vars

\* ------------------------------------------------- generate_feed alone
\* generate_feed(entries) called on an arbitrary entry list, over whatever
\* rss.xml an earlier call left
FeedEntries == [date : DateStrings, title : {<<"t">>}, link : {<<"k">>, <<"l">>},
                description : {<<"d">>}]
RECURSIVE ListsUpTo(_)
ListsUpTo(n) ==
    IF n = 0 THEN {<<>>}
    ELSE LET shorter == ListsUpTo(n - 1)
         IN shorter \cup {Append(l, e) : l \in {x \in shorter : Len(x) = n - 1},
                                          e \in FeedEntries}
EarlierFeeds ==
    {NoFeed} \cup {generate_feed(NoFeed, <<e>>) : e \in {x \in FeedEntries : x.date.off = 0
                                                                          /\ x.date.local = 1}}

InitFeed ==
    /\ mailbox = <<>>
    /\ state_file = NoFile
    /\ body_files = <<>>
    /\ rss \in EarlierFeeds
    /\ mode = "none"
    /\ outcome = "none"
    /\ exit_code = 0
    /\ last_uid = 0
    /\ search_crit = ALL
    /\ uids = <<>>
    /\ no_uids = {}
    /\ new_entries = <<>>
    /\ current_max_uid = 0
    /\ entries_arg \in ListsUpTo(MaxFeedLen)
    /\ response = NoResponse

\* mode "feed": generate_feed was called once on entries_arg; "feed_again":
\* it was called again on the same list
GenerateFeed ==
    /\ rss' = generate_feed(rss, entries_arg)
    /\ mode' = IF mode = "none" THEN "feed" ELSE "feed_again"
    /\ outcome' = "done"
    /\ UNCHANGED <<mailbox, state_file, body_files, exit_code, last_uid, search_crit,
                   uids, no_uids, new_entries, current_max_uid, entries_arg, response>>

NextFeed == GenerateFeed

SpecFeed == InitFeed /\ [][NextFeed]_vars

\* ------------------------------------------------------------- claims
Range(seq) == {seq[i] : i \in 1..Len(seq)}
Links(entries) == {entries[i].link : i \in 1..Len(entries)}
MailLink(uid) == Link(FileName(NormalizeId(mailbox[uid].subject)))
\* the messages of the last scan that the loop asked for and the server delivered
FetchedOK == {u \in Range(uids) : u > last_uid /\ u \notin no_uids}
BadDate(uid) == ~mailbox[uid].date.valid
\* a step that is an invocation of the script ending with save and feed
CompletedRun == mailbox' = mailbox /\ outcome' = "done"

\* C1: the last_uid persisted after a run is never below the last_uid
\* persisted before it, the state document being readable.
WatermarkMonotonic ==
    [][(state_file.kind = "ok" /\ state_file'.kind = "ok")
          => state_file'.last_uid >= state_file.last_uid]_vars
\* a scan that loaded a positive watermark has saved a higher one
WatermarkAdvanced ==
    /\ mode = "scan" /\ outcome = "done"
    /\ last_uid > 0
    /\ state_file.last_uid > last_uid

\* C2: the watermark a scan run saves is below the UID of every message
\* whose fetch failed in that run.
WatermarkBelowFailedFetch ==
    (mode = "scan" /\ outcome = "done") => \A u \in no_uids : state_file.last_uid < u

\* C3: the links of the history after a completed run are the links of the
\* history before it together with the links of the items the run normalized,
\* nothing lost and nothing else added.
NoLossNoDuplication ==
    [][CompletedRun =>
         /\ mode' = "scan" =>
              Links(state_file'.entries) =
                Links(load_state(state_file).entries) \cup {MailLink(u) : u \in FetchedOK'}
         /\ mode' = "add" =>
              Links(state_file'.entries) =
                Links(load_state(state_file).entries) \cup Links(new_entries')]_vars
\* a scan with a failed and a delivered fetch has extended an existing history
HistoryExtended ==
    /\ mode = "scan" /\ outcome = "done"
    /\ FetchedOK # {} /\ no_uids # {}
    /\ Len(state_file.entries) > Cardinality(FetchedOK)

\* C4: a scan that ends early leaves the state document as it was, and a
\* document that changes holds both results of the run, its watermark and
\* the loaded history extended by its new entries, never one without the other.
CommitBothOrNothing ==
    [][/\ (mailbox' = mailbox /\ outcome' \in {"login_failed", "select_failed", "raised"})
            => state_file' = state_file
       /\ state_file' # state_file
            => /\ state_file'.kind = "ok"
               /\ state_file'.last_uid = current_max_uid'
               /\ state_file'.entries = load_state(state_file).entries \o new_entries']_vars
\* a scan ended by an exception after it had normalized a message, over a
\* history that earlier runs had saved
EarlyEndAfterProgress ==
    /\ mode = "scan" /\ outcome = "raised"
    /\ new_entries # <<>>
    /\ current_max_uid > state_file.last_uid
    /\ state_file.kind = "ok" /\ state_file.entries # <<>>

\* C5: after any run, stopped inside save_state or not, load returns the pair
\* persisted before the run or the pair the run saves.
SaveIsAtomic ==
    [][load_state(state_file') \in
         {load_state(state_file),
          [last_uid |-> current_max_uid',
           entries |-> load_state(state_file).entries \o new_entries',
           raised |-> FALSE]}]_vars

\* C6: a scan that meets a message with an unparseable Date skips that one
\* message: the run completes and has an entry for every other fetched message.
BadDateSkipsOneItem ==
    (mode = "scan" /\ \E u \in FetchedOK : BadDate(u))
       => /\ outcome = "done"
          /\ Len(new_entries) = Cardinality({u \in FetchedOK : ~BadDate(u)})

\* C7: scan mode exits non-zero exactly when the login or the opening of the
\* folder failed.
ExitCodeContract ==
    mode = "scan" => (exit_code # 0 <=> outcome \in {"login_failed", "select_failed"})

\* C8: the feed's items are the entries in order of date descending, entries
\* of equal date in the order of the entry list.
IsStableDescending(items, entries, perm) ==
    /\ \A i \in 1..Len(entries) : items[i] = FeedItem(entries[perm[i]])
    /\ \A i, j \in 1..Len(entries) :
         i < j => \/ SortKey(entries[perm[i]]) > SortKey(entries[perm[j]])
                  \/ /\ SortKey(entries[perm[i]]) = SortKey(entries[perm[j]])
                     /\ perm[i] < perm[j]
Perms(n) == {f \in [1..n -> 1..n] : \A i, j \in 1..n : f[i] = f[j] => i = j}
RegenerationIdempotent ==
    [][(mode \in {"feed", "feed_again"}) => (rss'.items = rss.items)]_vars
\* a feed of several items that a second call on the same list has written
FeedRegenerated ==
    /\ mode = "feed_again"
    /\ Len(rss.items) >= 2
    /\ rss.items[1].updated # rss.items[2].updated

\* C10: a scan with no state document loads watermark 0, asks for ALL, gets
\* every UID of the folder, and saves an entry for each fetched message and
\* the highest UID as last_uid.
FirstRunFetchesAll ==
    [][(state_file.kind = "absent" /\ mode' = "scan" /\ outcome' = "done"
          /\ mailbox' = mailbox)
        => /\ last_uid' = 0
           /\ search_crit' = ALL
           /\ Range(uids') = DOMAIN mailbox
           /\ state_file'.last_uid = Len(mailbox)
           /\ LET ok == Ascending(DOMAIN mailbox \ no_uids')
              IN /\ Len(state_file'.entries) = Len(ok)
                 /\ \A i \in 1..Len(ok) : state_file'.entries[i].link = MailLink(ok[i])]_vars
\* a first scan of a folder of two messages
FirstRunDone ==
    /\ mode = "scan" /\ outcome = "done"
    /\ last_uid = 0
    /\ Len(uids) = 2
    /\ Len(state_file.entries) = 2
    /\ state_file.last_uid = 2

\* ------------------------------------------------ runs over a given file
\* a run of either mode that finds metadata.json as an earlier run, an
\* interrupted run or another program left it
Documents ==
    {NoFile, Truncated, NotObject, save_state(0, <<>>),
     save_state(0, <<ManualEntry(<<"u">>, <<"u">>, 2)>>)}

InitLoad ==
    /\ mailbox = <<>>
    /\ state_file \in Documents
    /\ body_files = <<>>
    /\ rss = NoFeed
    /\ mode = "none"
    /\ outcome = "none"
    /\ exit_code = 0
    /\ last_uid = 0
    /\ search_crit = ALL
    /\ uids = <<>>
    /\ no_uids = {}
    /\ new_entries = <<>>
    /\ current_max_uid = 0
    /\ entries_arg = <<>>
    /\ response = NoResponse

NextLoad ==
    \/ Deliver
    \/ FetchEmails
    \/ AddManualLink

SpecLoad == InitLoad /\ [][NextLoad]_vars

\* C11: a run that finds a state document it cannot parse into
\* {last_uid, entries} goes on as if there were none: load returns (0, []),
\* nothing is raised, and what the run saves is built on the empty history
\* (folders whose Date headers all parse).
UnparseableLoadsEmpty ==
    [][(/\ state_file.kind \in {"truncated", "not_object"}
        /\ mailbox' = mailbox
        /\ \A u \in DOMAIN mailbox : ~BadDate(u))
         => /\ outcome' = "done"
            /\ last_uid' = 0
            /\ state_file'.kind = "ok"
            /\ state_file'.entries = new_entries']_vars

\* C12: after a completed scan or inject run the feed has one item per entry
\* of the persisted history, no more and no fewer, each with the entry's link
\* as its id.
Count(seq, P(_)) == Cardinality({i \in 1..Len(seq) : P(seq[i])})
FeedAgreesWithState ==
    (mode \in {"scan", "add"} /\ outcome = "done") =>
        /\ rss.present
        /\ Len(rss.items) = Len(state_file.entries)
        /\ \A l \in Links(state_file.entries) :
             Count(rss.items, LAMBDA it : it.id = l /\ it.link = l)
               = Count(state_file.entries, LAMBDA e : e.link = l)
\* a completed run over a history of a mail entry and a later manual link,
\* which the feed lists in the other order
FeedReordersHistory ==
    /\ mode \in {"scan", "add"} /\ outcome = "done"
    /\ Len(state_file.entries) >= 2
    /\ state_file.entries[1].link # state_file.entries[2].link
    /\ rss.items[1].id = state_file.entries[2].link

\* C13: an inject run whose title fetch yields no usable page title (the
\* request raised, the status is not 200, the page has no title or a title
\* with nothing in it but white space) ends completed, state saved and feed
\* regenerated, with an entry whose title is the URL itself.
UsableTitle(resp) ==
    /\ ~resp.raises
    /\ resp.status_code = 200
    /\ resp.has_title
    /\ strip(resp.title) # <<>>
TitleFallsBackToURL ==
    (mode = "add" /\ response # NoResponse /\ ~UsableTitle(response)) =>
        /\ outcome = "done"
        /\ state_file.kind = "ok"
        /\ state_file.entries # <<>>
        /\ LET e == state_file.entries[Len(state_file.entries)]
           IN e.title = e.link
        /\ rss.present
        /\ entries_arg = state_file.entries

\* C14: a message whose fetch failed in a completed scan is asked for again
\* by the next completed scan, and if the server then delivers it the saved
\* history has its entry.
FailedFetchRetried ==
    [][(/\ mode = "scan" /\ outcome = "done"
        /\ mode' = "scan" /\ outcome' = "done"
        /\ mailbox' = mailbox)
         => \A u \in no_uids :
              /\ u \in Range(uids') /\ ~Skip(u, last_uid')
              /\ u \notin no_uids' => MailLink(u) \in Links(state_file'.entries)]_vars

\* C15: the history holds at most one entry per mailbox message, and a scan
\* makes no entry for a message whose UID is at or below the watermark it
\* loaded, whatever UIDs the search answered.
Description(uid) == remove_control_characters(strip(SelectBody(mailbox[uid])))
EntriesOf(entries, uid) ==
    {i \in 1..Len(entries) : /\ entries[i].description = Description(uid)
                             /\ entries[i].link = MailLink(uid)}
OneEntryPerUID ==
    /\ state_file.kind = "ok" =>
         \A u \in DOMAIN mailbox : Cardinality(EntriesOf(state_file.entries, u)) <= 1
    /\ mode = "scan" =>
         \A u \in DOMAIN mailbox : u <= last_uid => EntriesOf(new_entries, u) = {}
\* a completed scan whose search answered a UID at or below the loaded
\* watermark, the message having its entry from an earlier scan
AnswerBelowWatermark ==
    /\ mode = "scan" /\ outcome = "done"
    /\ last_uid > 0
    /\ \E u \in Range(uids) :
         /\ u <= last_uid
         /\ Cardinality(EntriesOf(state_file.entries, u)) = 1

\* C16: a completed inject run saves the watermark it loaded and the history
\* it loaded followed by one new entry, whose link is the URL given; the feed
\* is regenerated from that saved history and no body file is touched.
InjectAppendsOne ==
    [][(mode' = "add" /\ outcome' = "done" /\ mailbox' = mailbox)
         => LET old == load_state(state_file)
                n == Len(old.entries)
            IN /\ state_file'.kind = "ok"
               /\ state_file'.last_uid = old.last_uid
               /\ Len(state_file'.entries) = n + 1
               /\ SubSeq(state_file'.entries, 1, n) = old.entries
               /\ state_file'.entries[n + 1].link \in URLS
               /\ entries_arg' = state_file'.entries
               /\ rss' = generate_feed(rss, state_file'.entries)
               /\ body_files' = body_files]_vars
\* a link injected into a history that a scan has given a positive watermark
InjectedAfterScan ==
    /\ mode = "add" /\ outcome = "done"
    /\ last_uid > 0
    /\ state_file.last_uid = last_uid
    /\ Len(state_file.entries) >= 2
    /\ state_file.entries[Len(state_file.entries)].link \in URLS

\* C17: the watermark of the persisted state document is at least the UID of
\* every mailbox message that has an entry in its history, and an inject run
\* saves the watermark it loaded.
WatermarkCoversEntries ==
    /\ state_file.kind = "ok" =>
         \A u \in DOMAIN mailbox :
            EntriesOf(state_file.entries, u) # {} => state_file.last_uid >= u
    /\ (mode = "add" /\ outcome = "done") => state_file.last_uid = last_uid
\* a history of mail entries and a manual link, the watermark at the highest
\* message that has an entry
ManualAmongMailEntries ==
    /\ state_file.kind = "ok"
    /\ \E i \in 1..Len(state_file.entries) : state_file.entries[i].link \in URLS
    /\ \E u \in DOMAIN mailbox :
         /\ u >= 2
         /\ EntriesOf(state_file.entries, u) # {}
         /\ state_file.last_uid = u

\* C18: the history persisted before a run is a prefix of the history
\* persisted after it, the state document being readable: no earlier entry is
\* removed, changed or moved.
IsPrefix(s, t) == Len(s) <= Len(t) /\ SubSeq(t, 1, Len(s)) = s
EntriesAppendOnly ==
    [][(state_file.kind = "ok" /\ state_file'.kind = "ok")
          => IsPrefix(state_file.entries, state_file'.entries)]_vars
\* a scan has extended a history that is not in the order of the feed
ExtendedOutOfFeedOrder ==
    /\ mode = "scan" /\ outcome = "done"
    /\ new_entries # <<>>
    /\ Len(state_file.entries) > Len(new_entries)
    /\ \E i \in 1..Len(state_file.entries) : rss.items[i].id # state_file.entries[i].link

\* C19: the body file that an entry of the persisted history links to is
\* not changed by a later run, even one that runs to its end.
BodyFilesWriteOnce ==
    [][(state_file.kind = "ok" /\ outcome' = "done") =>
         \A n \in DOMAIN body_files :
            Link(n) \in Links(state_file.entries)
               => body_files'[n] = body_files[n]]_vars

\* ------------------------------------------------ multipart messages
\* a folder holding one multipart message, its parts of every content type in
\* every order
MaxParts == 3
ContentTypes == {"text/plain", "text/html", "image/png"}
PartBody(i) == [k \in 1..i |-> "p"]
Parts(ctypes) == [i \in 1..Len(ctypes) |-> [ctype |-> ctypes[i], payload |-> PartBody(i)]]
PartLists == UNION {[1..n -> ContentTypes] : n \in 1..MaxParts}

InitBody ==
    /\ mailbox \in {<<Multipart(s, h, Parts(cs))>> : s \in Subjects, h \in Headers, cs \in PartLists}
    /\ state_file = NoFile
    /\ body_files = <<>>
    /\ rss = NoFeed
    /\ mode = "none"
    /\ outcome = "none"
    /\ exit_code = 0
    /\ last_uid = 0
    /\ search_crit = ALL
    /\ uids = <<>>
    /\ no_uids = {}
    /\ new_entries = <<>>
    /\ current_max_uid = 0
    /\ entries_arg = <<>>
    /\ response = NoResponse

NextBody == FetchEmails

SpecBody == InitBody /\ [][NextBody]_vars

\* C20: the body written for a multipart message is the payload of a
\* text/html part whenever the message has one, wherever it stands among the
\* parts; with no text/html part it is the payload of the last part.
HtmlPartPreferred ==
    (mode = "scan" /\ outcome = "done" /\ 1 \in FetchedOK /\ mailbox[1].is_multipart) =>
        LET msg == mailbox[1]
            body == body_files[FileName(NormalizeId(msg.subject))]
            html == {i \in DOMAIN msg.parts : msg.parts[i].ctype = "text/html"}
        IN IF html # {}
           THEN \E i \in html : body = msg.parts[i].payload
           ELSE body = msg.parts[Len(msg.parts)].payload

====
